---------------------------- MODULE Spec2Model ----------------------------
(***************************************************************************)
(* Model of the BUFR sequence expansion of resolve_bufr_sequence:          *)
(*   - BUFRReader.read_sequence (io_utils.py), the cached reader with the  *)
(*     _sequence_stack visit set, and                                      *)
(*   - the module-level read_sequence (resolve_bufr_sequence.py) that the  *)
(*     command line and the test call.                                     *)
(* Text is modelled character by character: a string is a sequence of      *)
(* one-character strings, a line is a string ending in "\n", a file is a   *)
(* sequence of lines.  Python str values and dict values of the returned   *)
(* tree are the records Str(..) and Dict(..) below.                        *)
(***************************************************************************)
EXTENDS Integers, Sequences, FiniteSets, TLC

VARIABLES
    fs,              \* file system: path -> lines, for the paths that exist
    decl,            \* the blocks the definition file was written from
    gen,             \* which process this is: 1, or 2 after a restart
    budget,          \* top-level calls this process will still make
    _file_cache,     \* FileCache._file_cache: path -> lines
    _sequence_stack, \* BUFRReader._sequence_stack
    frames,          \* active read_sequence calls, innermost last
    running,         \* "idle", "reader" (BUFRReader), "module" (module-level)
    exc,             \* exception in flight: "none" or "FileNotFoundError"
    before,          \* reader state when the running top-level call began
    log              \* completed top-level calls, oldest first

vars == <<fs, decl, gen, budget, _file_cache, _sequence_stack, frames, running, exc, before, log>>

-----------------------------------------------------------------------------
(* Bounds of the model *)

\* most member tokens in the first generated block
MaxToks == 2
\* most member tokens in the second generated block
MaxToksB == 1
\* most top-level calls one process makes on the global reader
MaxCalls == 3
\* most lines after the header line in a generated several-line block
MaxRows == 2
\* call depth at which the interpreter gives up (sys.getrecursionlimit());
\* larger than any acyclic nesting the generated files can hold
RecursionLimit == 5

-----------------------------------------------------------------------------
(* Characters and strings *)

Q == "\""
NL == "\n"
Digits == {"0", "1", "2", "3", "4", "5", "6", "7", "8", "9"}
Letters ==
    {"a", "b", "c", "d", "e", "f", "g", "h", "i", "j", "k", "l", "m",
     "n", "o", "p", "q", "r", "s", "t", "u", "v", "w", "x", "y", "z"}
\* the (ASCII) characters the regular expression class \w accepts
WordChars == Digits \cup Letters \cup {"_"}

sequence_file == "sequence.def"

Seq302046 == <<"3", "0", "2", "0", "4", "6">>
Seq307087 == <<"3", "0", "7", "0", "8", "7">>
Tok004024 == <<"0", "0", "4", "0", "2", "4">>
Tok012049 == <<"0", "1", "2", "0", "4", "9">>
Tok1 == <<"1">>
Tok20 == <<"2", "0">>
Tok31 == <<"3", "1">>

CircularReference ==
    <<"<", "c", "i", "r", "c", "u", "l", "a", "r", " ",
      "r", "e", "f", "e", "r", "e", "n", "c", "e", ">">>

\* a Python str and a Python dict with one key
Str(s) == [type |-> "str", val |-> s, items |-> <<>>]
Dict(k, list) == [type |-> "dict", val |-> k, items |-> list]

NoFiles == [p \in {} |-> <<>>]

-----------------------------------------------------------------------------
(* Regular expressions of the scan *)

\* index of the first character of s at or after i that \w accepts
RECURSIVE SkipNonWord(_, _)
SkipNonWord(s, i) ==
    IF i > Len(s) \/ s[i] \in WordChars THEN i ELSE SkipNonWord(s, i + 1)

\* re.split(r"\W+", s) from position i on, cur being the piece read so far
RECURSIVE SplitFrom(_, _, _)
SplitFrom(s, i, cur) ==
    IF i > Len(s) THEN <<cur>>
    ELSE IF s[i] \in WordChars THEN SplitFrom(s, i + 1, Append(cur, s[i]))
    ELSE <<cur>> \o SplitFrom(s, SkipNonWord(s, i), <<>>)

\* re.split(r"\W+", line): the pieces between runs of non-word characters,
\* with the empty pieces at either end
Split(line) == SplitFrom(line, 1, <<>>)

\* a pattern that takes the header line of any block
Match_loose(sequence_number, line) == Len(line) >= 1 /\ line[1] = Q

\* re.match(rf"^\"{sequence_number}\" =", line), the identifier being word
\* characters only, so that every character of the pattern is a literal
HeaderPattern(sequence_number) == <<Q>> \o sequence_number \o <<Q, " ", "=">>
Match(sequence_number, line) ==
    LET p == HeaderPattern(sequence_number)
    IN  Len(line) >= Len(p) /\ SubSeq(line, 1, Len(p)) = p

\* the end-character test never succeeding
HasEndChar_never(line) == FALSE

\* end_char in line
HasEndChar(line) == \E i \in 1..Len(line) : line[i] = "]"

\* BUFRReader._is_sequence
_is_sequence(seq) == seq # <<>> /\ seq[1] = "3"

\* is_sequence of the module
is_sequence(seq) == Len(seq) >= 1 /\ seq[1] = "3"

-----------------------------------------------------------------------------
(* Definition files *)

\* tokens joined by ", "
RECURSIVE Join(_)
Join(toks) ==
    IF toks = <<>> THEN <<>>
    ELSE IF Len(toks) = 1 THEN toks[1]
    ELSE toks[1] \o <<",", " ">> \o Join(Tail(toks))

\* The lines of one block "id" = [ t1, t2, ... ]: all on the header line when
\* brk > Len(toks), else the first brk tokens on the header line and the rest,
\* with the closing bracket, on the next line.
BlockLines(b) ==
    LET n == Len(b.toks)
        head == <<Q>> \o b.id \o <<Q, " ", "=", " ", "[", " ", " ">>
    IN  IF b.brk > n
        THEN << head \o Join(b.toks) \o <<" ", "]", NL>> >>
        ELSE << head \o Join(SubSeq(b.toks, 1, b.brk))
                     \o (IF 0 < b.brk /\ b.brk < n THEN <<",">> ELSE <<>>) \o <<NL>>,
                <<" ", " ", " ", " ">> \o Join(SubSeq(b.toks, b.brk + 1, n))
                     \o <<" ", "]", NL>> >>

RECURSIVE FileLines(_)
FileLines(blocks) ==
    IF blocks = <<>> THEN <<>>
    ELSE BlockLines(Head(blocks)) \o FileLines(Tail(blocks))

\* sequences over S of length at most n
SeqsUpTo(S, n) == UNION {[1..k -> S] : k \in 0..n}

\* the blocks for id with at most n tokens of the alphabet, in every layout
Blocks(id, alphabet, n) ==
    UNION {{[id |-> id, toks |-> t, brk |-> k] : k \in 0..(Len(t) + 1)} :
              t \in SeqsUpTo(alphabet, n)}

\* the same blocks, each on one line
OneLine(blocks) ==
    [i \in 1..Len(blocks) |-> [blocks[i] EXCEPT !.brk = Len(blocks[i].toks) + 1]]

Roots == {Seq302046, Seq307087}
Alphabet == {Seq302046, Seq307087, Tok004024}
AlphabetB == {Seq302046, Seq307087}

\* a file holds a block for 302046 or none, then a block for 307087 or none
Files ==
    {a \o b : a \in {<<>>} \cup {<<x>> : x \in Blocks(Seq302046, Alphabet, MaxToks)},
              b \in {<<>>} \cup {<<x>> : x \in Blocks(Seq307087, AlphabetB, MaxToksB)}}

\* the block of the test: "302046" = [ 004024, 004024, 012049 ]
TestFile ==
    << [id |-> Seq302046, toks |-> <<Tok004024, Tok004024, Tok012049>>, brk |-> 4] >>

\* a block with members of every lexical class, short tokens among them
ClassFile ==
    << [id |-> Seq302046, toks |-> <<Tok1, Tok20, Tok31, Seq307087>>, brk |-> 2] >>

-----------------------------------------------------------------------------
(* Definition files with blocks of several lines, closed or left open *)

\* a sequence identifier of the docstring of BUFRReader.read_sequence
Seq301022 == <<"3", "0", "1", "0", "2", "2">>

RECURSIVE Flatten(_)
Flatten(rows) ==
    IF rows = <<>> THEN <<>> ELSE Head(rows) \o Flatten(Tail(rows))

\* The lines of a block written as a header line holding the tokens of head
\* and one further line for each row; the last line of the block carries the
\* closing bracket when the block is closed, every other line ends in a comma.
RowLines(b) ==
    LET n == Len(b.rows)
        open == <<Q>> \o b.id \o <<Q, " ", "=", " ", "[", " ", " ">>
        end(last) == IF last /\ b.closed THEN <<" ", "]", NL>> ELSE <<",", NL>>
    IN  << open \o Join(b.head) \o end(n = 0) >>
            \o [k \in 1..n |-> <<" ", " ", " ", " ">> \o Join(b.rows[k]) \o end(k = n)]

RECURSIVE RowFileLines(_)
RowFileLines(blocks) ==
    IF blocks = <<>> THEN <<>>
    ELSE RowLines(Head(blocks)) \o RowFileLines(Tail(blocks))

\* the blocks for id with at most h tokens on the header line and at most r
\* further lines of one token each, closed or not
RowBlocks(id, alphabet, h, r) ==
    {[id |-> id, head |-> hd, rows |-> rw, closed |-> c] :
        hd \in SeqsUpTo(alphabet, h),
        rw \in SeqsUpTo({<<t>> : t \in alphabet}, r),
        c \in BOOLEAN}

\* what follows the first block: nothing, a block for 307087 (on one line, on
\* two lines, or left open), or one-line blocks for 307087 and 301022
Tails ==
    LET b(rows, closed) ==
            [id |-> Seq307087, head |-> <<>>, rows |-> rows, closed |-> closed]
        B1 == [id |-> Seq307087, head |-> <<Tok004024>>, rows |-> <<>>, closed |-> TRUE]
        C1 == [id |-> Seq301022, head |-> <<Tok012049>>, rows |-> <<>>, closed |-> TRUE]
    IN  {<<>>, <<B1>>, <<b(<< <<Tok004024>> >>, TRUE)>>,
         <<b(<< <<Tok004024>> >>, FALSE)>>, <<B1, C1>>}

FilesCont ==
    {<<a>> \o t : a \in RowBlocks(Seq302046, Alphabet, MaxToksB, MaxRows),
                  t \in Tails}

-----------------------------------------------------------------------------
(* State of a call *)

None == [type |-> "None", val |-> <<>>, items |-> <<>>]

\* the locals of read_sequence at its first statement after the set-up
NewFrame(sequence_number, pc) ==
    [seq |-> sequence_number, pc |-> pc, li |-> 1, toks |-> <<>>,
     goto_next_line |-> FALSE, elements |-> <<>>]

Top == frames[Len(frames)]
SetTop(fr, f) == [fr EXCEPT ![Len(fr)] = f]
Entry(fn, seq, outcome, value) ==
    [fn |-> fn, seq |-> seq, gen |-> gen, outcome |-> outcome, value |-> value]

\* the caller's elements.append(tmp) once the callee has returned tmp
Deliver(fr, tmp) ==
    SetTop(fr, [fr[Len(fr)] EXCEPT !.elements = Append(@, tmp)])

\* the rest of one loop iteration once the continuation tokens are done:
\* the end-character test, then the header match
RestOfLine(f, line) ==
    LET g == IF HasEndChar(line) THEN FALSE ELSE f.goto_next_line
    IN  IF Match(f.seq, line)
        THEN [f EXCEPT !.pc = "head", !.toks = Split(line), !.goto_next_line = g]
        ELSE [f EXCEPT !.pc = "for", !.li = @ + 1, !.toks = <<>>,
                       !.goto_next_line = g]

\* files with every layout of the first block and two fixed second blocks
FilesSmall ==
    {a \o b : a \in {<<>>} \cup {<<x>> : x \in Blocks(Seq302046, Alphabet, MaxToks)},
              b \in {<<>>, << [id |-> Seq307087, toks |-> <<Seq302046>>, brk |-> 2] >>}}

\* a process that starts with one of the files, or with no definition file at
\* all, and will make n top-level calls
InitWith(files, n) ==
    /\ \/ /\ decl \in files
          /\ fs = [p \in {sequence_file} |-> FileLines(decl)]
       \/ /\ decl = <<>>
          /\ fs = NoFiles
    /\ gen = 1
    /\ budget = n
    /\ _file_cache = NoFiles
    /\ _sequence_stack = {}
    /\ frames = <<>>
    /\ running = "idle"
    /\ exc = "none"
    /\ before = [stack |-> {}, cache |-> NoFiles]
    /\ log = <<>>

Init == InitWith(Files \cup {TestFile, ClassFile}, 1)

InitCalls == InitWith(FilesSmall, MaxCalls)

InitLayout == InitWith(FilesSmall, 1)

\* Files in which a sequence can be a member at several places: a one-line
\* block for 302046 of members 307087 and 301022, then a one-line block for
\* 307087 or none, then a block for 301022, in every layout, or none.
FilesShared ==
    {<<a>> \o b \o c :
        a \in {x \in Blocks(Seq302046, {Seq307087, Seq301022}, MaxToks) :
                  x.brk > Len(x.toks)},
        b \in {<<>>} \cup
              {<<x>> : x \in {y \in Blocks(Seq307087,
                                           {Seq302046, Seq301022, Tok004024},
                                           MaxToksB) : y.brk > Len(y.toks)}},
        c \in {<<>>} \cup
              {<<x>> : x \in Blocks(Seq301022,
                                    {Seq307087, Seq301022, Tok004024}, MaxToksB)}}

InitShared == InitWith(FilesShared, 1)

\* a process that starts with one of the files of several-line blocks, or
\* with no definition file, and makes one top-level call
InitCont ==
    /\ \/ /\ decl \in FilesCont
          /\ fs = [p \in {sequence_file} |-> RowFileLines(decl)]
       \/ /\ decl = <<>>
          /\ fs = NoFiles
    /\ gen = 1
    /\ budget = 1
    /\ _file_cache = NoFiles
    /\ _sequence_stack = {}
    /\ frames = <<>>
    /\ running = "idle"
    /\ exc = "none"
    /\ before = [stack |-> {}, cache |-> NoFiles]
    /\ log = <<>>

-----------------------------------------------------------------------------
(* BUFRReader.read_sequence *)

\* the guard left out
InStack_never(sequence_number, stack) == FALSE

\* sequence_number in self._sequence_stack
InStack(sequence_number, stack) == sequence_number \in stack

\* the identifier is not recorded
StackAdd_skips(stack, sequence_number) == stack

\* self._sequence_stack.add(sequence_number)
StackAdd(stack, sequence_number) == stack \cup {sequence_number}

\* the identifier stays on the stack
StackRemove_keeps(stack, sequence_number) == stack

\* self._sequence_stack.remove(sequence_number)
StackRemove(stack, sequence_number) == stack \ {sequence_number}

\* the header-line filter: n != sequence_number and n
HeaderKeeps(n, sequence_number) == n # sequence_number /\ n # <<>>

\* the dict a guarded call returns at once
CircularDict(sequence_number) == Dict(sequence_number, <<Str(CircularReference)>>)

\* The value of `return elem_dict`: elem_dict holds the list that elements
\* named when it was built; the filter before the return binds a new list to
\* the local name only.
ReaderResult(f) == Dict(f.seq, f.elements)

\* tmp = self.read_sequence(n) from a running call: the interpreter's depth
\* check, then the guard, else the set-up of the callee; fr is frames with the
\* caller's token consumed
ReaderInvoke(n, fr) ==
    IF Len(fr) >= RecursionLimit
    THEN /\ frames' = <<>>
         /\ running' = "idle"
         /\ log' = Append(log, Entry("reader", fr[1].seq, "RecursionError", None))
         /\ UNCHANGED _sequence_stack
    ELSE IF InStack(n, _sequence_stack)
    THEN /\ frames' = Deliver(fr, CircularDict(n))
         /\ UNCHANGED <<_sequence_stack, running, log>>
    ELSE /\ _sequence_stack' = StackAdd(_sequence_stack, n)
         /\ frames' = Append(fr, NewFrame(n, "read"))
         /\ UNCHANGED <<running, log>>

\* a top-level reader.read_sequence(X)
ReaderCall(X) ==
    /\ running = "idle"
    /\ budget > 0
    /\ budget' = budget - 1
    /\ before' = [stack |-> _sequence_stack, cache |-> _file_cache]
    /\ IF InStack(X, _sequence_stack)
       THEN /\ log' = Append(log, Entry("reader", X, "returned", CircularDict(X)))
            /\ UNCHANGED <<_sequence_stack, frames, running>>
       ELSE /\ _sequence_stack' = StackAdd(_sequence_stack, X)
            /\ frames' = <<NewFrame(X, "read")>>
            /\ running' = "reader"
            /\ UNCHANGED log
    /\ UNCHANGED <<fs, decl, gen, _file_cache, exc>>

\* lines = self._cache.read_file_lines(config.sequence_file); goto_next_line = False
ReaderReadFileLines ==
    /\ running = "reader" /\ exc = "none"
    /\ Top.pc = "read"
    /\ IF sequence_file \in DOMAIN _file_cache
       THEN /\ frames' = SetTop(frames, [Top EXCEPT !.pc = "for"])
            /\ UNCHANGED <<_file_cache, exc>>
       ELSE IF sequence_file \in DOMAIN fs
       THEN /\ _file_cache' =
                 [p \in DOMAIN _file_cache \cup {sequence_file} |->
                     IF p = sequence_file THEN fs[p] ELSE _file_cache[p]]
            /\ frames' = SetTop(frames, [Top EXCEPT !.pc = "for"])
            /\ UNCHANGED exc
       ELSE /\ exc' = "FileNotFoundError"
            /\ UNCHANGED <<_file_cache, frames>>
    /\ UNCHANGED <<fs, decl, gen, budget, _sequence_stack, running, before, log>>

\* for line in lines: the next line, and its continuation test
ReaderForLine ==
    /\ running = "reader" /\ exc = "none"
    /\ Top.pc = "for"
    /\ Top.li <= Len(_file_cache[sequence_file])
    /\ LET line == _file_cache[sequence_file][Top.li]
       IN  frames' = SetTop(frames,
               IF Top.goto_next_line
               THEN [Top EXCEPT !.pc = "cont", !.toks = Split(line)]
               ELSE RestOfLine(Top, line))
    /\ UNCHANGED <<fs, decl, gen, budget, _file_cache, _sequence_stack, running,
                   exc, before, log>>

\* one token of a continuation line
ReaderContToken ==
    /\ running = "reader" /\ exc = "none"
    /\ Top.pc = "cont"
    /\ Top.toks # <<>>
    /\ LET n == Head(Top.toks)
           fr == SetTop(frames, [Top EXCEPT !.toks = Tail(@)])
       IN  IF _is_sequence(n)
           THEN ReaderInvoke(n, fr)
           ELSE /\ frames' = IF n # <<>> THEN Deliver(fr, Str(n)) ELSE fr
                /\ UNCHANGED <<_sequence_stack, running, log>>
    /\ UNCHANGED <<fs, decl, gen, budget, _file_cache, exc, before>>

\* the continuation tokens are done: end-character test and header match
ReaderContEnd ==
    /\ running = "reader" /\ exc = "none"
    /\ Top.pc = "cont"
    /\ Top.toks = <<>>
    /\ frames' = SetTop(frames, RestOfLine(Top, _file_cache[sequence_file][Top.li]))
    /\ UNCHANGED <<fs, decl, gen, budget, _file_cache, _sequence_stack, running,
                   exc, before, log>>

\* one token of the header line
ReaderHeadToken ==
    /\ running = "reader" /\ exc = "none"
    /\ Top.pc = "head"
    /\ Top.toks # <<>>
    /\ LET n == Head(Top.toks)
           fr == SetTop(frames, [Top EXCEPT !.toks = Tail(@)])
       IN  IF HeaderKeeps(n, Top.seq)
           THEN IF _is_sequence(n)
                THEN ReaderInvoke(n, fr)
                ELSE /\ frames' = Deliver(fr, Str(n))
                     /\ UNCHANGED <<_sequence_stack, running, log>>
           ELSE /\ frames' = fr
                /\ UNCHANGED <<_sequence_stack, running, log>>
    /\ UNCHANGED <<fs, decl, gen, budget, _file_cache, exc, before>>

\* the header tokens are done: goto_next_line = False if end_char in line else True
ReaderHeadEnd ==
    /\ running = "reader" /\ exc = "none"
    /\ Top.pc = "head"
    /\ Top.toks = <<>>
    /\ LET line == _file_cache[sequence_file][Top.li]
       IN  frames' = SetTop(frames,
               [Top EXCEPT !.pc = "for", !.li = @ + 1,
                           !.goto_next_line = ~HasEndChar(line)])
    /\ UNCHANGED <<fs, decl, gen, budget, _file_cache, _sequence_stack, running,
                   exc, before, log>>

\* the loop is over: remove from the stack and return elem_dict
ReaderReturn ==
    /\ running = "reader" /\ exc = "none"
    /\ Top.pc = "for"
    /\ Top.li > Len(_file_cache[sequence_file])
    /\ _sequence_stack' = StackRemove(_sequence_stack, Top.seq)
    /\ IF Len(frames) > 1
       THEN /\ frames' = Deliver(SubSeq(frames, 1, Len(frames) - 1), ReaderResult(Top))
            /\ UNCHANGED <<running, log>>
       ELSE /\ frames' = <<>>
            /\ running' = "idle"
            /\ log' = Append(log, Entry("reader", Top.seq, "returned", ReaderResult(Top)))
    /\ UNCHANGED <<fs, decl, gen, budget, _file_cache, exc, before>>

\* a handler that returns what it has instead of raising again
ReaderExcept_swallow ==
    /\ running = "reader" /\ exc = "FileNotFoundError"
    /\ _sequence_stack' = StackRemove(_sequence_stack, Top.seq)
    /\ frames' = <<>>
    /\ running' = "idle"
    /\ exc' = "none"
    /\ log' = Append(log, Entry("reader", frames[1].seq, "returned", ReaderResult(Top)))
    /\ UNCHANGED <<fs, decl, gen, budget, _file_cache, before>>

\* except FileNotFoundError: remove from the stack and raise again
ReaderExcept ==
    /\ running = "reader" /\ exc = "FileNotFoundError"
    /\ _sequence_stack' = StackRemove(_sequence_stack, Top.seq)
    /\ IF Len(frames) > 1
       THEN /\ frames' = SubSeq(frames, 1, Len(frames) - 1)
            /\ UNCHANGED <<running, exc, log>>
       ELSE /\ frames' = <<>>
            /\ running' = "idle"
            /\ exc' = "none"
            /\ log' = Append(log, Entry("reader", Top.seq, "FileNotFoundError", None))
    /\ UNCHANGED <<fs, decl, gen, budget, _file_cache, before>>

ReaderStep ==
    \/ ReaderReadFileLines
    \/ ReaderForLine
    \/ ReaderContToken
    \/ ReaderContEnd
    \/ ReaderHeadToken
    \/ ReaderHeadEnd
    \/ ReaderReturn
    \/ ReaderExcept

-----------------------------------------------------------------------------
(* read_sequence of the module resolve_bufr_sequence *)

\* list(filter(None, elements)): the empty strings go
RECURSIVE FilterNone(_)
FilterNone(elements) ==
    IF elements = <<>> THEN <<>>
    ELSE IF Head(elements) = Str(<<>>) THEN FilterNone(Tail(elements))
    ELSE <<Head(elements)>> \o FilterNone(Tail(elements))

\* elements filtered, elem_dict[sequence_number] = elements, return elem_dict
ModuleResult(f) == Dict(f.seq, FilterNone(f.elements))

\* tmp = read_sequence(n) from a running call: the interpreter's depth check,
\* else the set-up of the callee; no statement of the function looks at the
\* calls that are active
ModuleInvoke(n, fr) ==
    IF Len(fr) >= RecursionLimit
    THEN /\ frames' = <<>>
         /\ running' = "idle"
         /\ log' = Append(log, Entry("module", fr[1].seq, "RecursionError", None))
    ELSE /\ frames' = Append(fr, NewFrame(n, "open"))
         /\ UNCHANGED <<running, log>>

\* a top-level read_sequence(X), as resolve_sequence and the test make it
ModuleCall(X) ==
    /\ running = "idle"
    /\ budget > 0
    /\ budget' = budget - 1
    /\ before' = [stack |-> _sequence_stack, cache |-> _file_cache]
    /\ frames' = <<NewFrame(X, "open")>>
    /\ running' = "module"
    /\ UNCHANGED <<fs, decl, gen, _file_cache, _sequence_stack, exc, log>>

\* with Path(SEQUENCE_FILE).open("r") as fp; a missing file is caught by the
\* function itself, which prints and leaves the process with sys.exit(1)
ModuleOpen ==
    /\ running = "module"
    /\ Top.pc = "open"
    /\ IF sequence_file \in DOMAIN fs
       THEN /\ frames' = SetTop(frames, [Top EXCEPT !.pc = "for"])
            /\ UNCHANGED <<running, log>>
       ELSE /\ frames' = <<>>
            /\ running' = "exited"
            /\ log' = Append(log, Entry("module", frames[1].seq, "SystemExit", None))
    /\ UNCHANGED <<fs, decl, gen, budget, _file_cache, _sequence_stack, exc, before>>

\* for line in fp: the next line, and its continuation test
ModuleForLine ==
    /\ running = "module"
    /\ Top.pc = "for"
    /\ Top.li <= Len(fs[sequence_file])
    /\ LET line == fs[sequence_file][Top.li]
       IN  frames' = SetTop(frames,
               IF Top.goto_next_line
               THEN [Top EXCEPT !.pc = "cont", !.toks = Split(line)]
               ELSE RestOfLine(Top, line))
    /\ UNCHANGED <<fs, decl, gen, budget, _file_cache, _sequence_stack, running,
                   exc, before, log>>

\* one token of a continuation line
ModuleContToken ==
    /\ running = "module"
    /\ Top.pc = "cont"
    /\ Top.toks # <<>>
    /\ LET n == Head(Top.toks)
           fr == SetTop(frames, [Top EXCEPT !.toks = Tail(@)])
       IN  IF is_sequence(n)
           THEN ModuleInvoke(n, fr)
           ELSE /\ frames' = Deliver(fr, Str(n))
                /\ UNCHANGED <<running, log>>
    /\ UNCHANGED <<fs, decl, gen, budget, _file_cache, _sequence_stack, exc, before>>

\* the continuation tokens are done: end-character test and header match
ModuleContEnd ==
    /\ running = "module"
    /\ Top.pc = "cont"
    /\ Top.toks = <<>>
    /\ frames' = SetTop(frames, RestOfLine(Top, fs[sequence_file][Top.li]))
    /\ UNCHANGED <<fs, decl, gen, budget, _file_cache, _sequence_stack, running,
                   exc, before, log>>

\* one token of the header line
ModuleHeadToken ==
    /\ running = "module"
    /\ Top.pc = "head"
    /\ Top.toks # <<>>
    /\ LET n == Head(Top.toks)
           fr == SetTop(frames, [Top EXCEPT !.toks = Tail(@)])
       IN  IF n # Top.seq
           THEN IF is_sequence(n)
                THEN ModuleInvoke(n, fr)
                ELSE /\ frames' = Deliver(fr, Str(n))
                     /\ UNCHANGED <<running, log>>
           ELSE /\ frames' = fr
                /\ UNCHANGED <<running, log>>
    /\ UNCHANGED <<fs, decl, gen, budget, _file_cache, _sequence_stack, exc, before>>

\* the header tokens are done: goto_next_line = False if endchar in line else True
ModuleHeadEnd ==
    /\ running = "module"
    /\ Top.pc = "head"
    /\ Top.toks = <<>>
    /\ LET line == fs[sequence_file][Top.li]
       IN  frames' = SetTop(frames,
               [Top EXCEPT !.pc = "for", !.li = @ + 1,
                           !.goto_next_line = ~HasEndChar(line)])
    /\ UNCHANGED <<fs, decl, gen, budget, _file_cache, _sequence_stack, running,
                   exc, before, log>>

\* the loop is over: filter, fill elem_dict and return it
ModuleReturn ==
    /\ running = "module"
    /\ Top.pc = "for"
    /\ Top.li > Len(fs[sequence_file])
    /\ IF Len(frames) > 1
       THEN /\ frames' = Deliver(SubSeq(frames, 1, Len(frames) - 1), ModuleResult(Top))
            /\ UNCHANGED <<running, log>>
       ELSE /\ frames' = <<>>
            /\ running' = "idle"
            /\ log' = Append(log, Entry("module", Top.seq, "returned", ModuleResult(Top)))
    /\ UNCHANGED <<fs, decl, gen, budget, _file_cache, _sequence_stack, exc, before>>

ModuleStep ==
    \/ ModuleOpen
    \/ ModuleForLine
    \/ ModuleContToken
    \/ ModuleContEnd
    \/ ModuleHeadToken
    \/ ModuleHeadEnd
    \/ ModuleReturn

-----------------------------------------------------------------------------
(* Processes *)

\* The process has made its calls and ends; the same definitions, written one
\* block to a line, are read by a new process: the module-level objects are
\* built again (reader = BUFRReader()).
Restart ==
    /\ gen = 1
    /\ running \in {"idle", "exited"}
    /\ budget = 0
    /\ gen' = 2
    /\ budget' = 1
    /\ fs' = [p \in DOMAIN fs |-> FileLines(OneLine(decl))]
    /\ _file_cache' = NoFiles
    /\ _sequence_stack' = {}
    /\ running' = "idle"
    /\ before' = [stack |-> {}, cache |-> NoFiles]
    /\ UNCHANGED <<decl, frames, exc, log>>

Step == ReaderStep \/ ModuleStep

Next ==
    \/ \E X \in Roots : ReaderCall(X)
    \/ \E X \in Roots : ModuleCall(X)
    \/ Step

Spec == Init /\ [][Next]_vars

NextReader ==
    \/ \E X \in Roots : ReaderCall(X)
    \/ ReaderStep

\* one process making several top-level calls on the global reader
SpecCalls == InitCalls /\ [][NextReader]_vars

\* one call on the global reader; the interpreter keeps executing the call
\* it is in
LiveSpec == InitLayout /\ [][NextReader]_vars /\ WF_vars(ReaderStep)

NextLayout ==
    \/ Next
    \/ Restart

\* a process on a file, then a process on the same definitions written one
\* block to a line
SpecLayout == InitLayout /\ [][NextLayout]_vars

\* one call on the global reader, on a file of several-line blocks
SpecCont == InitCont /\ [][NextReader]_vars

\* one call on the global reader, on a file with shared members
SpecShared == InitShared /\ [][NextReader]_vars

-----------------------------------------------------------------------------
(* What the claims speak of *)

Last == log[Len(log)]

HasBlock(id) == \E i \in DOMAIN decl : decl[i].id = id

\* the member tokens the file's block for id declares, in order
Declared(id) ==
    IF HasBlock(id)
    THEN decl[CHOOSE i \in DOMAIN decl : decl[i].id = id].toks
    ELSE <<>>

\* lexical class of a token: a 6-character token starting with 3
Class3(t) == Len(t) = 6 /\ t[1] = "3"
\* a token starting with 0, 1 or 2
Class012(t) == Len(t) >= 1 /\ t[1] \in {"0", "1", "2"}

Sentinel == Str(CircularReference)

\* every value (str or dict) of a returned tree, the tree itself included
RECURSIVE Nodes(_)
Nodes(v) == {v} \cup UNION {Nodes(v.items[i]) : i \in DOMAIN v.items}

Active == {frames[i].seq : i \in DOMAIN frames}

\* BUFRReader.read_sequence is about to handle a token of the line it scans
ReaderAtToken ==
    /\ running = "reader" /\ exc = "none"
    /\ frames # <<>>
    /\ Top.pc \in {"cont", "head"}
    /\ Top.toks # <<>>
CurToken == Head(Top.toks)
CurLine == _file_cache[sequence_file][Top.li]
\* the token is a member: not an empty piece, and not the quoted identifier
\* that opens the header line (the second piece of that line)
IsMemberToken ==
    /\ CurToken # <<>>
    /\ Top.pc = "head" => Len(Split(CurLine)) - Len(Top.toks) + 1 >= 3
Consumed == SetTop(frames, [Top EXCEPT !.toks = Tail(@)])

ReaderEnded ==
    /\ running = "idle"
    /\ log # <<>>
    /\ Last.fn = "reader"
    /\ sequence_file \in DOMAIN fs => Last.outcome = "returned"

\* position in the file of the block for id
Index(id) == CHOOSE i \in DOMAIN decl : decl[i].id = id

\* In a file of several-line blocks: the tokens, in order, of the lines from
\* the header line of block j on, up to and including the first line that
\* holds a closing bracket, or up to the end of the file.
RECURSIVE SpillFrom(_)
SpillFrom(j) ==
    IF j > Len(decl) THEN <<>>
    ELSE LET b == decl[j]
         IN  <<b.id>> \o b.head
                \o (IF b.rows = <<>> /\ b.closed THEN <<>>
                    ELSE Flatten(b.rows)
                            \o (IF b.closed THEN <<>> ELSE SpillFrom(j + 1)))

\* the tokens of the lines after the header line of the block for id, up to
\* and including the first line that holds a closing bracket; none when the
\* header line itself holds one
ContinuationTokens(id) ==
    LET b == decl[Index(id)]
    IN  IF b.rows = <<>> /\ b.closed THEN <<>>
        ELSE Flatten(b.rows)
                \o (IF b.closed THEN <<>> ELSE SpillFrom(Index(id) + 1))

\* the sequences the block for id names as members
Refs(id) ==
    {t \in {Declared(id)[i] : i \in DOMAIN Declared(id)} : t[1] = "3"}

\* S and everything some member chain leads to from S
RECURSIVE Closure(_)
Closure(S) ==
    LET T == S \cup UNION {Refs(x) : x \in S}
    IN  IF T = S THEN S ELSE Closure(T)

\* id lies on a reference cycle of the file
OnCycle(id) == id \in Closure(Refs(id))

\* id lies on a cycle or a member chain leads from it to a sequence that does
ReachesCycle(id) == \E x \in Closure({id}) : OnCycle(x)

\* The dicts of a returned tree, each with its place in the tree (the member
\* positions leading to it) and the keys of the dicts that enclose it.
RECURSIVE Occ(_, _, _)
Occ(v, anc, path) ==
    IF v.type # "dict" THEN {}
    ELSE {[node |-> v, anc |-> anc, path |-> path]}
            \cup UNION {Occ(v.items[i], anc \cup {v.val}, Append(path, i)) :
                           i \in DOMAIN v.items}

\* two places of the tree where the same sequence is a member and is not
\* enclosed by an expansion of itself
SharedPair(o1, o2) ==
    /\ o1.path # o2.path
    /\ o1.node.val = o2.node.val
    /\ o1.node.val \notin o1.anc
    /\ o2.node.val \notin o2.anc

-----------------------------------------------------------------------------
(* The claims *)

\* C1: every top-level BUFRReader.read_sequence call ends, and with a
\* definition file present it ends by returning a tree, whatever self-
\* references and reference cycles the file holds.
C1_ReaderTerminates == (running = "reader") ~> ReaderEnded

\* C1 witness: a reader call on a file where the two sequences refer to each
\* other has returned a tree that holds a circular-reference marker.
C1_Witness ==
    /\ log # <<>>
    /\ Last.fn = "reader" /\ Last.outcome = "returned"
    /\ Sentinel \in Nodes(Last.value)
    /\ \E t \in Roots \ {Last.seq} :
          /\ \E i \in DOMAIN Declared(Last.seq) : Declared(Last.seq)[i] = t
          /\ \E i \in DOMAIN Declared(t) : Declared(t)[i] = Last.seq

\* C2: whenever the reader handles a member token naming an identifier of an
\* active call (the sequence itself included), it puts the circular-reference
\* dict in that member's place, starts no call, and leaves the stack as it is.
C2_CycleEdgesMarked ==
    [][(ReaderAtToken /\ IsMemberToken /\ CurToken \in Active)
          => /\ frames' = Deliver(Consumed, CircularDict(CurToken))
             /\ _sequence_stack' = _sequence_stack]_vars

\* C3: a returned member list for an identifier with a block has one entry per
\* declared token, in order, duplicates kept: the token string for a
\* non-sequence token, a dict keyed by the token for a sequence token.
C3_MembersAsDeclared ==
    \A k \in DOMAIN log :
        (log[k].outcome = "returned" /\ HasBlock(log[k].seq)) =>
            LET toks == Declared(log[k].seq)
                items == log[k].value.items
            IN  /\ Len(items) = Len(toks)
                /\ \A i \in DOMAIN toks :
                      IF toks[i][1] = "3"
                      THEN items[i].type = "dict" /\ items[i].val = toks[i]
                      ELSE items[i] = Str(toks[i])

\* C4: with a definition file present, a call for an identifier without a
\* block returns {X: []}, and in every returned tree a sequence token without
\* a block is the dict {id: []}, never a string and never an error.
C4_NoBlockIsEmptyDict ==
    \A k \in DOMAIN log :
        sequence_file \in DOMAIN fs =>
            /\ ~HasBlock(log[k].seq) =>
                  /\ log[k].outcome = "returned"
                  /\ log[k].value = Dict(log[k].seq, <<>>)
            /\ log[k].outcome = "returned" =>
                  \A v \in Nodes(log[k].value) :
                      (v.val # <<>> /\ v.val[1] = "3" /\ ~HasBlock(v.val)) =>
                          v = Dict(v.val, <<>>)

\* C4 witness: a returned tree of a sequence with a block holds {id: []} for
\* a member sequence that has no block.
C4_Witness ==
    /\ log # <<>>
    /\ Last.outcome = "returned"
    /\ HasBlock(Last.seq)
    /\ \E i \in DOMAIN Last.value.items :
          /\ ~HasBlock(Last.value.items[i].val)
          /\ Last.value.items[i] = Dict(Last.value.items[i].val, <<>>)

\* C5: two top-level reader calls for the same identifier in one process end
\* the same way with equal trees, whatever was expanded in between.
C5_Idempotent ==
    \A i, j \in DOMAIN log :
        (log[i].fn = "reader" /\ log[j].fn = "reader" /\ log[i].gen = log[j].gen
            /\ log[i].seq = log[j].seq) =>
                log[i].outcome = log[j].outcome /\ log[i].value = log[j].value

\* C5 witness: X was expanded, then another identifier, then X again, and the
\* tree of X holds a nested expansion.
C5_Witness ==
    /\ Len(log) = 3
    /\ log[1].seq = log[3].seq /\ log[2].seq # log[1].seq
    /\ log[3].outcome = "returned"
    /\ \E i \in DOMAIN log[3].value.items : log[3].value.items[i].type = "dict"

\* C6: the stack is exactly the set of identifiers of the active reader
\* calls, each active once, and is empty when no reader call is in progress.
C6_StackIsActivePath ==
    /\ running = "reader" =>
          /\ _sequence_stack = Active
          /\ Cardinality(Active) = Len(frames)
    /\ running # "reader" => _sequence_stack = {}

\* C6 witness: inside a call, an identifier that was expanded and has
\* returned is in the output so far and no longer on the stack.
C6_Witness ==
    /\ running = "reader"
    /\ \E i \in DOMAIN Top.elements :
          /\ Top.elements[i].type = "dict"
          /\ Top.elements[i].items # <<Sentinel>>
          /\ Top.elements[i].val \notin _sequence_stack

\* C7: the reader returns for X, from a file whose blocks are split over two
\* lines, what it returns from the same blocks written on one line each.
C7_LayoutIndependent ==
    \A i, j \in DOMAIN log :
        (log[i].fn = "reader" /\ log[j].fn = "reader"
            /\ log[i].gen = 1 /\ log[j].gen = 2 /\ log[i].seq = log[j].seq) =>
                log[i].outcome = log[j].outcome /\ log[i].value = log[j].value

\* C8: the reader expands every member token of length 6 starting with 3 (a
\* call for it, or the dict of the guard), and keeps every member token
\* starting with 0, 1 or 2 as a string without a call.
C8_LexicalClasses ==
    [][(ReaderAtToken /\ IsMemberToken)
          => /\ Class3(CurToken) =>
                   \/ frames' = Append(Consumed, NewFrame(CurToken, "read"))
                   \/ frames' = Deliver(Consumed, CircularDict(CurToken))
             /\ Class012(CurToken) => frames' = Deliver(Consumed, Str(CurToken))]_vars

\* C9: without a definition file a reader call never gets past reading the
\* file, ends with FileNotFoundError and no tree, adds nothing to the file
\* cache and leaves the stack as it was before the call.
C9_FileNotFound ==
    sequence_file \notin DOMAIN fs =>
        /\ running = "reader" => \A i \in DOMAIN frames : frames[i].pc = "read"
        /\ (running = "idle" /\ log # <<>> /\ Last.fn = "reader") =>
              /\ Last.outcome = "FileNotFoundError"
              /\ Last.value = None
              /\ _file_cache = before.cache
              /\ sequence_file \notin DOMAIN _file_cache
              /\ _sequence_stack = before.stack

\* C9 witness: two reader calls in a row have ended with FileNotFoundError.
C9_Witness ==
    /\ Len(log) >= 2
    /\ running = "idle"
    /\ log[Len(log) - 1].outcome = "FileNotFoundError"
    /\ Last.outcome = "FileNotFoundError"

\* C10: every top-level call of the module-level read_sequence returns; none
\* runs into the interpreter's recursion limit.
C10_ModuleReturns ==
    \A k \in DOMAIN log :
        log[k].fn = "module" => log[k].outcome # "RecursionError"

\* C11: with a definition file present a reader call returns, and the member
\* list returned for an identifier with a block ends with one entry for each
\* token of the lines after its header line, up to and including the first
\* line that holds a closing bracket or, when no later line holds one, up to
\* the end of the file: a dict keyed by the token for a sequence token, the
\* token string otherwise. Before these entries come only entries for tokens
\* of the header line; no token of a later line has an entry.
C11_ContinuationPolicy ==
    \A k \in DOMAIN log :
        (log[k].fn = "reader" /\ sequence_file \in DOMAIN fs) =>
            /\ log[k].outcome = "returned"
            /\ HasBlock(log[k].seq) =>
                  LET c == ContinuationTokens(log[k].seq)
                      head == decl[Index(log[k].seq)].head
                      items == log[k].value.items
                      h == Len(items) - Len(c)
                  IN  /\ h \in 0..Len(head)
                      /\ \A i \in 1..h :
                            \E j \in DOMAIN head : items[i].val = head[j]
                      /\ \A i \in DOMAIN c :
                            /\ items[h + i].val = c[i]
                            /\ items[h + i].type =
                                  IF c[i][1] = "3" THEN "dict" ELSE "str"

\* C11 witness: the only block of the file has lines after its header line
\* and no closing bracket anywhere; the call for it has returned with an entry
\* for each of those lines.
C11_Witness ==
    /\ log # <<>>
    /\ Last.fn = "reader" /\ Last.outcome = "returned"
    /\ Len(decl) = 1
    /\ Last.seq = decl[1].id
    /\ ~decl[1].closed
    /\ Len(decl[1].rows) >= 2
    /\ Len(Last.value.items) >= Len(decl[1].rows)

\* C12 as stated: in a tree returned by the reader, a sequence S that is a
\* member at two places, neither enclosed by an expansion of S, is expanded at
\* both (neither is the dict of the guard), and unless S lies on a cycle the
\* two dicts are equal and hold no circular-reference marker.
C12_SharedReexpanded ==
    \A k \in DOMAIN log :
        (log[k].fn = "reader" /\ log[k].outcome = "returned") =>
            \A o1, o2 \in Occ(log[k].value, {}, <<>>) :
                SharedPair(o1, o2) =>
                    /\ o1.node # CircularDict(o1.node.val)
                    /\ ~OnCycle(o1.node.val) =>
                          /\ o1.node = o2.node
                          /\ Sentinel \notin Nodes(o1.node)

\* C12 amended: the same, except that the dicts hold no circular-reference
\* marker unless S lies on a cycle or a member chain leads from S to a
\* sequence that does.
C12_SharedReexpandedAmended ==
    \A k \in DOMAIN log :
        (log[k].fn = "reader" /\ log[k].outcome = "returned") =>
            \A o1, o2 \in Occ(log[k].value, {}, <<>>) :
                SharedPair(o1, o2) =>
                    /\ o1.node # CircularDict(o1.node.val)
                    /\ ~OnCycle(o1.node.val) => o1.node = o2.node
                    /\ ~ReachesCycle(o1.node.val) =>
                          Sentinel \notin Nodes(o1.node)

\* C12 witness: 302046 = [307087, 301022] and 307087 = [301022]: the returned
\* tree holds the expansion of 301022 inside that of 307087 and again as the
\* second member, equal, with members and without a marker.
C12_Witness ==
    /\ log # <<>>
    /\ Last.fn = "reader" /\ Last.outcome = "returned"
    /\ Len(Last.value.items) = 2
    /\ LET x == Last.value.items[1]
           y == Last.value.items[2]
       IN  /\ x.val = Seq307087 /\ y.val = Seq301022
           /\ x.items = <<y>>
           /\ y.items # <<>>
           /\ Sentinel \notin Nodes(y)

=============================================================================
